---- MODULE Spec2Model ----
(***************************************************************************)
(* Model of normalize.js: the search normalisation (hiraToKata,            *)
(* normalizeForSearch), the n-gram derivation (createNgrams) and the       *)
(* batched migration (migrateData) with its commits against the store.     *)
(*                                                                         *)
(* A JavaScript string is a sequence of UTF-16 code units (naturals).  A   *)
(* JavaScript value is a record [t, s, a]: t is the type tag, s the code   *)
(* units of a string (or the single number of a number), a the elements    *)
(* of an array or the entries [k, v] of an object in insertion order.      *)
(***************************************************************************)
EXTENDS Integers, Sequences, FiniteSets, TLC

\* ------------------------------------------------------------------ bounds
MaxStrLen == 2      \* longest input string given to normalizeForSearch
MaxTextLen == 4     \* longest text given to createNgrams
MaxGram == 3        \* largest n-gram length requested
MaxLengths == 2     \* most n-gram lengths requested in one call
MaxN == 1001        \* largest number of documents in the collection
SmallN == 2         \* collections up to this size take every combination of shapes
MaxRuns == 2        \* how many times the script is run on the same collection

\* ------------------------------------------------------- JavaScript values
Str(s) == [t |-> "string", s |-> s, a |-> <<>>]
Num(n) == [t |-> "number", s |-> <<n>>, a |-> <<>>]
Arr(items) == [t |-> "array", s |-> <<>>, a |-> items]
Obj(entries) == [t |-> "object", s |-> <<>>, a |-> entries]
Null == [t |-> "null", s |-> <<>>, a |-> <<>>]
Undefined == [t |-> "undefined", s |-> <<>>, a |-> <<>>]

\* JavaScript truthiness (the ! and && operators)
Truthy(v) ==
  CASE v.t = "string" -> v.s # <<>>
    [] v.t = "number" -> v.s # <<0>>
    [] v.t \in {"array", "object"} -> TRUE
    [] OTHER -> FALSE

\* typeof x === 'object' (true of arrays and of null)
TypeofObject(v) == v.t \in {"object", "array", "null"}

\* ------------------------------------------------------------- hiraToKata
HiraFirst == 12353      \* U+3041
HiraLast == 12438       \* U+3096
KataOffset == 96        \* 0x60

hiraToKata(str) ==
  [i \in 1..Len(str) |->
     IF str[i] >= HiraFirst /\ str[i] <= HiraLast
     THEN str[i] + KataOffset
     ELSE str[i]]

\* ------------------------------------- String.prototype.normalize (UAX #15)
\* Unicode character data for the code points of the model: the input
\* alphabet and everything the four steps can produce from it.
\*   A 65, P 80, a 97, p 112, SPACE 32, ACUTE ACCENT 180,
\*   A-acute 193, a-acute 225, A-macron 256, a-macron 257,
\*   P-acute 7764, p-acute 7765,
\*   COMBINING ACUTE 769, COMBINING MACRON 772,
\*   HIRAGANA HA 12399, PA 12401, YO 12424, RI 12426,
\*   COMBINING SEMI-VOICED SOUND MARK 12442, HIRAGANA DIGRAPH YORI 12447,
\*   KATAKANA HA 12495, PA 12497, YO 12520, RI 12522,
\*   FULLWIDTH P 65328, fullwidth p 65360,
\*   HALFWIDTH KATAKANA HA 65418, HALFWIDTH SEMI-VOICED SOUND MARK 65439

\* canonical combining class
CCC(c) ==
  CASE c \in {769, 772} -> 230
    [] c = 12442 -> 8
    [] OTHER -> 0

\* full canonical decomposition of one code point
CanonDecomp(c) ==
  CASE c = 193 -> <<65, 769>>
    [] c = 225 -> <<97, 769>>
    [] c = 256 -> <<65, 772>>
    [] c = 257 -> <<97, 772>>
    [] c = 7764 -> <<80, 769>>
    [] c = 7765 -> <<112, 769>>
    [] c = 12401 -> <<12399, 12442>>
    [] c = 12497 -> <<12495, 12442>>
    [] OTHER -> <<c>>

\* full compatibility decomposition of one code point
CompatDecomp(c) ==
  CASE c = 180 -> <<32, 769>>
    [] c = 12447 -> <<12424, 12426>>
    [] c = 65328 -> <<80>>
    [] c = 65360 -> <<112>>
    [] c = 65418 -> <<12495>>
    [] c = 65439 -> <<12442>>
    [] OTHER -> CanonDecomp(c)

\* primary composite of a starter and a following code point, 0 when none
Composite(a, b) ==
  CASE a = 65 /\ b = 769 -> 193
    [] a = 97 /\ b = 769 -> 225
    [] a = 65 /\ b = 772 -> 256
    [] a = 97 /\ b = 772 -> 257
    [] a = 80 /\ b = 769 -> 7764
    [] a = 112 /\ b = 769 -> 7765
    [] a = 12399 /\ b = 12442 -> 12401
    [] a = 12495 /\ b = 12442 -> 12497
    [] OTHER -> 0

\* canonical ordering: a mark moves left past marks of a higher class
RECURSIVE InsertMark(_, _)
InsertMark(prefix, c) ==
  IF prefix = <<>> \/ CCC(c) = 0 \/ CCC(prefix[Len(prefix)]) <= CCC(c)
  THEN Append(prefix, c)
  ELSE Append(InsertMark(SubSeq(prefix, 1, Len(prefix) - 1), c),
              prefix[Len(prefix)])

RECURSIVE DecomposeFrom(_, _, _, _)
DecomposeFrom(out, str, i, compat) ==
  IF i > Len(str) THEN out
  ELSE LET d == IF compat THEN CompatDecomp(str[i]) ELSE CanonDecomp(str[i])
           o1 == InsertMark(out, d[1])
           o2 == IF Len(d) > 1 THEN InsertMark(o1, d[2]) ELSE o1
       IN DecomposeFrom(o2, str, i + 1, compat)

NFD(str) == DecomposeFrom(<<>>, str, 1, FALSE)
NFKD(str) == DecomposeFrom(<<>>, str, 1, TRUE)

\* canonical composition: st = [out, sp, lc], sp the index in out of the last
\* starter (0 when none), lc the combining class of the last code point kept
RECURSIVE ComposeFrom(_, _, _)
ComposeFrom(st, str, i) ==
  IF i > Len(str) THEN st.out
  ELSE LET c == str[i]
           cc == CCC(c)
           comp == IF st.sp > 0 /\ (st.lc < cc \/ st.lc = 0)
                   THEN Composite(st.out[st.sp], c) ELSE 0
       IN IF comp # 0
          THEN ComposeFrom([st EXCEPT !.out[st.sp] = comp], str, i + 1)
          ELSE ComposeFrom([out |-> Append(st.out, c),
                            sp |-> IF cc = 0 THEN Len(st.out) + 1 ELSE st.sp,
                            lc |-> cc], str, i + 1)

NFKC(str) == ComposeFrom([out |-> <<>>, sp |-> 0, lc |-> 0], NFKD(str), 1)

\* str.replace(/[\u0300-\u036f]/g, '')
MarkFirst == 768        \* U+0300
MarkLast == 879         \* U+036F
IsMark(c) == c >= MarkFirst /\ c <= MarkLast

RECURSIVE StripMarks(_)
StripMarks(str) ==
  IF str = <<>> THEN <<>>
  ELSE IF IsMark(Head(str)) THEN StripMarks(Tail(str))
       ELSE <<Head(str)>> \o StripMarks(Tail(str))

\* String.prototype.toLowerCase, one code unit at a time
LowerChar(c) ==
  CASE c = 65 -> 97
    [] c = 80 -> 112
    [] c = 193 -> 225
    [] c = 256 -> 257
    [] c = 7764 -> 7765
    [] c = 65328 -> 65360
    [] OTHER -> c

toLowerCase(str) == [i \in 1..Len(str) |-> LowerChar(str[i])]

\* ----------------------------------------------------- normalizeForSearch
normalizeForSearch(inputStr) ==
  IF inputStr.t # "string" \/ inputStr.s = <<>> THEN <<>>
  ELSE toLowerCase(NFKC(StripMarks(NFD(hiraToKata(inputStr.s)))))

\* ----------------------------------------------------------- createNgrams
Min(a, b) == IF a < b THEN a ELSE b
Max(a, b) == IF a > b THEN a ELSE b

\* String.prototype.substring(start, end), 0-based, end exclusive, clamped
substring(text, start, end) ==
  SubSeq(text, Min(Max(start, 0), Len(text)) + 1, Min(Max(end, 0), Len(text)))

\* Set.prototype.add on a set kept in insertion order
SetAdd(set, x) ==
  IF \E k \in 1..Len(set) : set[k] = x THEN set ELSE Append(set, x)

\* for (let i = 0; i < text.length - n + 1; i++) ngrams.add(...)
RECURSIVE NgramLoopShort(_, _, _, _)
NgramLoopShort(ngrams, text, n, i) ==
  IF i < Len(text) - n
  THEN NgramLoopShort(SetAdd(ngrams, substring(text, i, i + n)), text, n, i + 1)
  ELSE ngrams

RECURSIVE NgramLoop(_, _, _, _)
NgramLoop(ngrams, text, n, i) ==
  IF i < Len(text) - n + 1
  THEN NgramLoop(SetAdd(ngrams, substring(text, i, i + n)), text, n, i + 1)
  ELSE ngrams

NgramWindow(ngrams, text, n) == NgramLoop(ngrams, text, n, 0)

\* nValues.forEach(n => ...)
RECURSIVE NgramForEach(_, _, _)
NgramForEach(ngrams, text, nValues) ==
  IF nValues = <<>> THEN ngrams
  ELSE NgramForEach(NgramWindow(ngrams, text, Head(nValues)), text, Tail(nValues))

createNgrams(text, nValues) ==
  IF text.t # "string" \/ text.s = <<>> THEN <<>>
  ELSE NgramForEach(<<>>, text.s, nValues)

DefaultNValues == <<2, 3>>

\* ------------------------------------------------------------ the store
\* A document: its fields, Undefined for a field it does not have.
Doc(name, aliases, aliases_norm) ==
  [name |-> name, aliases |-> aliases, aliases_norm |-> aliases_norm,
   name_norm |-> Undefined, name_norm_ngrams |-> Undefined]

Entry(k, v) == [k |-> k, v |-> v]

\* The shapes of documents the collection is populated with.
Shapes == <<
  Doc(Obj(<<Entry("en", Str(<<80, 257, 97>>)), Entry("ja", Str(<<12401>>))>>),
      Arr(<<Str(<<256>>), Num(5), Str(<<12401>>)>>), Undefined),
  Doc(Obj(<<Entry("ja", Str(<<12401, 12399>>))>>),
      Undefined, Arr(<<Str(<<97>>)>>)),
  Doc(Obj(<<Entry("ja", Num(5)), Entry("en", Str(<<>>))>>),
      Undefined, Undefined),
  Doc(Undefined, Undefined, Null),
  Doc(Str(<<97, 97>>), Str(<<97>>), Arr(<<>>)),
  Doc(Null, Arr(<<>>), Arr(<<Str(<<97>>)>>)),
  Doc(Arr(<<Str(<<97, 97>>)>>), Arr(<<Num(5)>>), Undefined),
  Doc(Obj(<<Entry("en", Num(5)), Entry("ja", Str(<<12399>>))>>),
      Undefined, Str(<<>>)),
  Doc(Obj(<<Entry("ja", Str(<<65418, 65439>>)), Entry("en", Str(<<>>))>>),
      Undefined, Undefined),
  Doc(Obj(<<>>), Num(0), Num(1)) >>

ShapeSet == {Shapes[k] : k \in 1..Len(Shapes)}

\* a large collection repeats the shapes in turn
CyclicCollection(n) == [i \in 1..n |-> Shapes[((i - 1) % Len(Shapes)) + 1]]

\* if (operationCounter === 500)
BatchLimit == 500

CollectionSizes ==
  {n \in 0..MaxN : n <= SmallN
                    \/ n % BatchLimit \in {BatchLimit - 1, 0, 1, 2}}

Collections ==
  UNION {IF n <= SmallN THEN [1..n -> ShapeSet] ELSE {CyclicCollection(n)}
         : n \in CollectionSizes}

\* ------------------------------------------- the update built per document
\* obj[key]: the value of a named property, undefined when there is none
Prop(obj, key) ==
  IF obj.t = "object" /\ \E i \in 1..Len(obj.a) : obj.a[i].k = key
  THEN obj.a[CHOOSE i \in 1..Len(obj.a) : obj.a[i].k = key].v
  ELSE Undefined

\* Object.values(obj)[0]
FirstValue(obj) ==
  IF obj.a = <<>> THEN Undefined
  ELSE IF obj.t = "object" THEN obj.a[1].v ELSE obj.a[1]

\* let baseName = ""; if (data.name && typeof data.name === 'object') ...
baseName(data) ==
  IF Truthy(data.name) /\ TypeofObject(data.name)
  THEN LET en == Prop(data.name, "en")
           firstValue == FirstValue(data.name)
       IN IF Truthy(en) /\ en.t = "string" THEN en
          ELSE IF Truthy(firstValue) /\ firstValue.t = "string" THEN firstValue
               ELSE Str(<<>>)
  ELSE Str(<<>>)

\* .filter(alias => typeof alias === 'string')
KeepAll(items) == items

RECURSIVE FilterStrings(_)
FilterStrings(items) ==
  IF items = <<>> THEN <<>>
  ELSE IF Head(items).t = "string"
       THEN <<Head(items)>> \o FilterStrings(Tail(items))
       ELSE FilterStrings(Tail(items))

\* .map(alias => normalizeForSearch(alias))
MapNormalize(items) ==
  [i \in 1..Len(items) |-> Str(normalizeForSearch(items[i]))]

StrArray(strs) == Arr([i \in 1..Len(strs) |-> Str(strs[i])])

\* the guard of the else-branch: } else if (!data.aliases_norm) {
AliasesNormMissing(data) == ~Truthy(data.aliases_norm)

\* the normalised aliases appended to the stored list instead of replacing it
aliasesNormAppend(data) ==
  IF data.aliases.t = "array"
  THEN Arr((IF data.aliases_norm.t = "array" THEN data.aliases_norm.a ELSE <<>>)
             \o MapNormalize(FilterStrings(data.aliases.a)))
  ELSE IF AliasesNormMissing(data) THEN Arr(<<>>) ELSE Undefined

\* updateData.aliases_norm, Undefined when the update does not set it
aliasesNormUpdate(data) ==
  IF data.aliases.t = "array"
  THEN Arr(MapNormalize(FilterStrings(data.aliases.a)))
  ELSE IF AliasesNormMissing(data) THEN Arr(<<>>) ELSE Undefined

\* the n-grams taken from the base name instead of from name_norm
updateDataRawNgrams(data) ==
  LET name_norm == Str(normalizeForSearch(baseName(data)))
  IN [name_norm |-> name_norm,
      name_norm_ngrams |-> StrArray(createNgrams(baseName(data), DefaultNValues)),
      aliases_norm |-> aliasesNormUpdate(data)]

updateData(data) ==
  LET name_norm == Str(normalizeForSearch(baseName(data)))
  IN [name_norm |-> name_norm,
      name_norm_ngrams |-> StrArray(createNgrams(name_norm, DefaultNValues)),
      aliases_norm |-> aliasesNormUpdate(data)]

UpdateFields == {"name_norm", "name_norm_ngrams", "aliases_norm"}

\* what batch.update(ref, updateData) does to a document once committed
ApplyUpdate(doc, upd) ==
  [f \in DOMAIN doc |->
     IF f \in UpdateFields /\ upd[f].t # "undefined" THEN upd[f] ELSE doc[f]]

\* ------------------------------------------------------------------ state
VARIABLES
  pc,                \* where migrateData is: start, get, forEach, await,
                     \*   done, returned (empty collection), caught
  store,             \* the documents of the collection in the store
  snapshot,          \* the documents appsRef.get() returned
  batchArray,        \* the batches, each the updates added to it
  operationCounter,
  batchIndex,
  visited,           \* how many documents snapshot.forEach has visited
  commits,           \* per batch the state of its commit():
                     \*   none, inflight, ok, failed
  promiseAll,        \* the promise of Promise.all: [state, reason]
  consoleLog,        \* what console.log printed
  consoleError,      \* what the catch handler printed with console.error
  run,               \* which run of the script this is, 1 for the first
  nfIn, nfOut,       \* a value and the results of normalizeForSearch on it
  ngText, ngNs, ngOut, \* a call of createNgrams and its result
  ngPc               \* idle, call, done

vars == <<pc, store, snapshot, batchArray, operationCounter, batchIndex,
          visited, commits, promiseAll, consoleLog, consoleError, run,
          nfIn, nfOut, ngText, ngNs, ngOut, ngPc>>

migrateVars == <<pc, store, snapshot, batchArray, operationCounter, batchIndex,
                 visited, commits, promiseAll, consoleLog, consoleError, run>>
normVars == <<nfIn, nfOut>>
ngramVars == <<ngText, ngNs, ngOut, ngPc>>

NoPromise == [state |-> "none", reason |-> 0]

MigrateInit(collections) ==
  /\ pc = "start"
  /\ store \in collections
  /\ snapshot = <<>>
  /\ batchArray = <<>>
  /\ operationCounter = 0
  /\ batchIndex = 0
  /\ visited = 0
  /\ commits = <<>>
  /\ promiseAll = NoPromise
  /\ consoleLog = <<>>
  /\ consoleError = <<>>
  /\ run = 1

NormIdle == nfIn = Undefined /\ nfOut = <<>>
NgramIdle ==
  ngText = Undefined /\ ngNs = <<>> /\ ngOut = <<>> /\ ngPc = "idle"

Init == MigrateInit(Collections) /\ NormIdle /\ NgramIdle

\* ------------------------------------------------------------ migrateData
\* migrateData() is called: the first log line and the get() request
Begin ==
  /\ pc = "start"
  /\ pc' = "get"
  /\ consoleLog' = Append(consoleLog, "start")
  /\ UNCHANGED <<store, snapshot, batchArray, operationCounter, batchIndex,
                 visited, commits, promiseAll, consoleError>>
  /\ UNCHANGED <<normVars, ngramVars, run>>

\* migrateData().catch(err => console.error(..., err))
CatchSilently(err) == <<>>

CatchHandler(err) == <<err>>

\* snapshot.empty
SnapshotNeverEmpty(docs) == FALSE

SnapshotEmpty(docs) == docs = <<>>

\* await appsRef.get() resolves: the empty check and the batch preparation
GetResolve ==
  /\ pc = "get"
  /\ snapshot' = store
  /\ IF SnapshotEmpty(store)
     THEN /\ consoleLog' = Append(consoleLog, "notfound")
          /\ pc' = "returned"
          /\ UNCHANGED batchArray
     ELSE /\ consoleLog' = Append(consoleLog, "size")
          /\ pc' = "forEach"
          /\ batchArray' = <<<<>>>>
  /\ operationCounter' = 0
  /\ batchIndex' = 0
  /\ UNCHANGED <<store, visited, commits, promiseAll, consoleError>>
  /\ UNCHANGED <<normVars, ngramVars, run>>

\* await appsRef.get() rejects: migrateData rejects and the handler runs
GetReject ==
  /\ pc = "get"
  /\ pc' = "caught"
  /\ consoleError' = CatchHandler([src |-> "get", batch |-> 0])
  /\ UNCHANGED <<store, snapshot, batchArray, operationCounter, batchIndex,
                 visited, commits, promiseAll, consoleLog>>
  /\ UNCHANGED <<normVars, ngramVars, run>>

\* batchArray[batchIndex].update(doc.ref, updateData)
BatchUpdateNamed(batch, ref, upd) ==
  IF upd.name_norm.s = <<>> THEN batch
  ELSE Append(batch, [ref |-> ref, data |-> upd])

BatchUpdate(batch, ref, upd) == Append(batch, [ref |-> ref, data |-> upd])

\* if (operationCounter === 500)
RolloverLate(counter) == counter = BatchLimit + 1
RolloverEarly(counter) == counter = BatchLimit - 1

RolloverDue(counter) == counter = BatchLimit

\* one call of the snapshot.forEach callback
ForEachDoc ==
  /\ pc = "forEach"
  /\ visited < Len(snapshot)
  /\ LET ref == visited + 1
         upd == updateData(snapshot[ref])
         added == [batchArray EXCEPT
                     ![batchIndex + 1] = BatchUpdate(@, ref, upd)]
         counter == operationCounter + 1
     IN /\ visited' = ref
        /\ IF RolloverDue(counter)
           THEN /\ batchArray' = Append(added, <<>>)
                /\ batchIndex' = batchIndex + 1
                /\ operationCounter' = 0
           ELSE /\ batchArray' = added
                /\ batchIndex' = batchIndex
                /\ operationCounter' = counter
  /\ UNCHANGED <<pc, store, snapshot, commits, promiseAll, consoleLog,
                 consoleError>>
  /\ UNCHANGED <<normVars, ngramVars, run>>

\* batchArray.map(batch => batch.commit()): the commits issued by the map
IssueFirstOnly(batches) ==
  [i \in 1..Len(batches) |-> IF i = 1 THEN "inflight" ELSE "none"]

IssueNonEmpty(batches) ==
  [i \in 1..Len(batches) |-> IF batches[i] = <<>> THEN "none" ELSE "inflight"]

IssueCommits(batches) == [i \in 1..Len(batches) |-> "inflight"]

\* forEach has returned: the log line, the commits, Promise.all, the await
CommitAll ==
  /\ pc = "forEach"
  /\ visited = Len(snapshot)
  /\ consoleLog' = Append(consoleLog, "batches")
  /\ commits' = IssueCommits(batchArray)
  /\ promiseAll' = [state |-> "pending", reason |-> 0]
  /\ pc' = "await"
  /\ UNCHANGED <<store, snapshot, batchArray, operationCounter, batchIndex,
                 visited, consoleError>>
  /\ UNCHANGED <<normVars, ngramVars, run>>

\* Promise.all fulfils when every promise given to it has fulfilled
SomeFulfilled(cs) == \E i \in 1..Len(cs) : cs[i] = "ok"

AllFulfilled(cs) == \A i \in 1..Len(cs) : cs[i] = "ok"

\* the updates of a batch that name document ref, in the order they were added
UpdatesFor(batch, ref) == SelectSeq(batch, LAMBDA e : e.ref = ref)

RECURSIVE ApplyAll(_, _)
ApplyAll(doc, entries) ==
  IF entries = <<>> THEN doc
  ELSE ApplyAll(ApplyUpdate(doc, Head(entries).data), Tail(entries))

\* the store applies the updates of a batch, in order, all at once
ApplyBatch(docs, batch) ==
  LET refs == {batch[j].ref : j \in 1..Len(batch)}
  IN [d \in DOMAIN docs |->
        IF d \in refs THEN ApplyAll(docs[d], UpdatesFor(batch, d))
        ELSE docs[d]]

\* the store accepts the commit of batch i
CommitSucceed(i) ==
  /\ commits[i] = "inflight"
  /\ commits' = [commits EXCEPT ![i] = "ok"]
  /\ store' = ApplyBatch(store, batchArray[i])
  /\ promiseAll' = IF promiseAll.state = "pending" /\ AllFulfilled(commits')
                   THEN [state |-> "fulfilled", reason |-> 0]
                   ELSE promiseAll
  /\ UNCHANGED <<pc, snapshot, batchArray, operationCounter, batchIndex,
                 visited, consoleLog, consoleError>>
  /\ UNCHANGED <<normVars, ngramVars, run>>

\* the store rejects the commit of batch i: nothing of it is written, and
\* Promise.all rejects with the first rejection
CommitFail(i) ==
  /\ commits[i] = "inflight"
  /\ commits' = [commits EXCEPT ![i] = "failed"]
  /\ promiseAll' = IF promiseAll.state = "pending"
                   THEN [state |-> "rejected", reason |-> i]
                   ELSE promiseAll
  /\ UNCHANGED <<pc, store, snapshot, batchArray, operationCounter,
                 batchIndex, visited, consoleLog, consoleError>>
  /\ UNCHANGED <<normVars, ngramVars, run>>

\* await Promise.all(...) resumes: the completion log line
AwaitResume ==
  /\ pc = "await"
  /\ promiseAll.state = "fulfilled"
  /\ consoleLog' = Append(consoleLog, "complete")
  /\ pc' = "done"
  /\ UNCHANGED <<store, snapshot, batchArray, operationCounter, batchIndex,
                 visited, commits, promiseAll, consoleError>>
  /\ UNCHANGED <<normVars, ngramVars, run>>

\* await Promise.all(...) throws: migrateData rejects and the handler runs
AwaitThrow ==
  /\ pc = "await"
  /\ promiseAll.state = "rejected"
  /\ pc' = "caught"
  /\ consoleError' = CatchHandler([src |-> "commit", batch |-> promiseAll.reason])
  /\ UNCHANGED <<store, snapshot, batchArray, operationCounter, batchIndex,
                 visited, commits, promiseAll, consoleLog>>
  /\ UNCHANGED <<normVars, ngramVars, run>>

\* the script is run again on the collection a completed run has left
Rerun ==
  /\ pc = "done"
  /\ run < MaxRuns
  /\ run' = run + 1
  /\ pc' = "start"
  /\ snapshot' = <<>>
  /\ batchArray' = <<>>
  /\ operationCounter' = 0
  /\ batchIndex' = 0
  /\ visited' = 0
  /\ commits' = <<>>
  /\ promiseAll' = NoPromise
  /\ consoleLog' = <<>>
  /\ consoleError' = <<>>
  /\ UNCHANGED <<store, normVars, ngramVars>>

Next ==
  \/ Begin
  \/ GetResolve
  \/ GetReject
  \/ ForEachDoc
  \/ CommitAll
  \/ \E i \in 1..Len(commits) : CommitSucceed(i)
  \/ \E i \in 1..Len(commits) : CommitFail(i)
  \/ AwaitResume
  \/ AwaitThrow

Spec == Init /\ [][Next]_vars

\* ------------------------------------- the script run again on its result
RerunCollections ==
  UNION {[1..n -> ShapeSet] : n \in 0..SmallN} \cup {CyclicCollection(BatchLimit + 1)}

RerunInit == MigrateInit(RerunCollections) /\ NormIdle /\ NgramIdle

RerunNext == Next \/ Rerun

SpecRerun == RerunInit /\ [][RerunNext]_vars

\* ------------------------------- normalizeForSearch on its own, run twice
NormInputChars ==
  {65, 97, 180, 257, 772, 12399, 12401, 12442, 12447, 65328, 65418, 65439}

StringsUpTo(chars, n) == UNION {[1..k -> chars] : k \in 0..n}

NormInputs ==
  {Str(s) : s \in StringsUpTo(NormInputChars, MaxStrLen)}
    \cup {Null, Undefined, Num(5)}

NormInit ==
  /\ MigrateInit({<<>>})
  /\ NgramIdle
  /\ nfIn \in NormInputs
  /\ nfOut = <<>>

\* normalizeForSearch(x)
NormalizeInput ==
  /\ nfOut = <<>>
  /\ nfOut' = <<normalizeForSearch(nfIn)>>
  /\ UNCHANGED <<nfIn, migrateVars, ngramVars>>

\* normalizeForSearch(normalizeForSearch(x))
NormalizeAgain ==
  /\ Len(nfOut) = 1
  /\ nfOut' = Append(nfOut, normalizeForSearch(Str(nfOut[1])))
  /\ UNCHANGED <<nfIn, migrateVars, ngramVars>>

NormNext == NormalizeInput \/ NormalizeAgain

SpecNorm == NormInit /\ [][NormNext]_vars

\* ------------------------------------------------- createNgrams on its own
NgramChars == {97, 98, 99, 100}

NgramTexts == {Str(s) : s \in StringsUpTo(NgramChars, MaxTextLen)} \cup {Null}

NgramLengths == UNION {[1..k -> 1..MaxGram] : k \in 1..MaxLengths}

NgramInit ==
  /\ MigrateInit({<<>>})
  /\ NormIdle
  /\ ngText \in NgramTexts
  /\ ngNs \in NgramLengths
  /\ ngOut = <<>>
  /\ ngPc = "call"

\* createNgrams(text, nValues)
CallCreateNgrams ==
  /\ ngPc = "call"
  /\ ngOut' = createNgrams(ngText, ngNs)
  /\ ngPc' = "done"
  /\ UNCHANGED <<ngText, ngNs, migrateVars, normVars>>

NgramNext == CallCreateNgrams

SpecNgram == NgramInit /\ [][NgramNext]_vars

\* ================================================================= claims
BatchSizes == [i \in 1..Len(batchArray) |-> Len(batchArray[i])]

BatchRefs(i) == {batchArray[i][j].ref : j \in 1..Len(batchArray[i])}

RECURSIVE EntriesUpTo(_)
EntriesUpTo(i) == IF i = 0 THEN 0 ELSE Len(batchArray[i]) + EntriesUpTo(i - 1)

TotalEntries == EntriesUpTo(Len(batchArray))

\* snapshot.forEach has visited every document of a non-empty snapshot
EnumerationEnded ==
  /\ pc \in {"forEach", "await", "done", "caught"}
  /\ snapshot # <<>>
  /\ visited = Len(snapshot)

\* C1: at every moment of the batch construction and of the commits, no batch
\* of batchArray holds more than 500 update operations.
C1_BatchWithinLimit ==
  \A i \in 1..Len(batchArray) : Len(batchArray[i]) <= BatchLimit

\* C1 witness: commits are in flight with a batch that is exactly full
C1_FullBatchCommitted ==
  /\ pc = "await"
  /\ \E i \in 1..Len(batchArray) :
       Len(batchArray[i]) = BatchLimit /\ commits[i] = "inflight"

\* C2: when enumeration ends, every enumerated document has exactly one
\* update in exactly one batch: none is missing, none is in two batches,
\* none is twice in one batch.
C2_EveryRecordOnce ==
  EnumerationEnded =>
    /\ UNION {BatchRefs(i) : i \in 1..Len(batchArray)} = 1..Len(snapshot)
    /\ TotalEntries = Len(snapshot)

\* C2 witness: enumeration has ended with the documents spread over three
\* batches
C2_EndedWithSeveralBatches ==
  /\ EnumerationEnded
  /\ Len(batchArray) = 3
  /\ Len(batchArray[3]) > 0

\* C3: the batches in creation order split the documents into consecutive
\* runs in arrival order: document k (0-based) is entry k mod 500 of batch
\* floor(k / 500), every batch but the last holds 500 entries and the last
\* the remaining ones; 1001 documents give batches of 500, 500 and 1.
C3_ConsecutiveRuns ==
  EnumerationEnded =>
    LET n == Len(snapshot)
        last == Len(batchArray)
    IN /\ \A k \in 0..(n - 1) :
            /\ (k \div BatchLimit) + 1 <= last
            /\ (k % BatchLimit) + 1 <= Len(batchArray[(k \div BatchLimit) + 1])
            /\ batchArray[(k \div BatchLimit) + 1][(k % BatchLimit) + 1].ref = k + 1
       /\ \A i \in 1..(last - 1) : Len(batchArray[i]) = BatchLimit
       /\ Len(batchArray[last]) = n - BatchLimit * (last - 1)
       /\ (n = 1001 => BatchSizes = <<500, 500, 1>>)

\* C3 witness: 1001 documents have been split into 500, 500 and 1
C3_ThreeBatches ==
  /\ EnumerationEnded
  /\ Len(snapshot) = 1001
  /\ BatchSizes = <<500, 500, 1>>

\* the documents a batch names hold what the batch wrote
Written(docs, batch) ==
  \A j \in 1..Len(batch) :
    docs[batch[j].ref] = ApplyUpdate(docs[batch[j].ref], batch[j].data)

\* C4: the commit of every batch is issued whatever happens to the others; a
\* failure of one commit leaves every other commit as it is (issued, still in
\* flight, or succeeded with its writes in the store).
C4_Step ==
  /\ (\E a \in 1..Len(commits') : commits'[a] = "failed")
       => /\ Len(commits') = Len(batchArray')
          /\ \A b \in 1..Len(commits') : commits'[b] # "none"
  /\ \A a \in 1..Len(commits) :
       (commits[a] = "inflight" /\ commits'[a] = "failed")
         => /\ \A b \in 1..Len(commits) : b # a => commits'[b] = commits[b]
            /\ store' = store
  /\ \A b \in 1..Len(commits) :
       commits[b] = "ok" => commits'[b] = "ok" /\ Written(store', batchArray[b])

C4_IndependentCommits == [][C4_Step]_vars

\* C4 witness: one commit has failed and the failure has been handled, a
\* second has succeeded, a third is still in flight
C4_FailedOkInflight ==
  /\ pc = "caught"
  /\ \E a, b, c \in 1..Len(commits) :
       commits[a] = "failed" /\ commits[b] = "ok" /\ commits[c] = "inflight"

AllSettled ==
  /\ pc \in {"done", "caught"}
  /\ commits # <<>>
  /\ \A i \in 1..Len(commits) : commits[i] \in {"ok", "failed"}

\* the batches the program has reported as failed, and as succeeded
ReportedFailed ==
  {consoleError[k].batch : k \in {j \in 1..Len(consoleError) :
                                     consoleError[j].src = "commit"}}

ReportedSucceeded ==
  IF \E k \in 1..Len(consoleLog) : consoleLog[k] = "complete"
  THEN 1..Len(commits) ELSE {}

\* C5: once all commits have settled there is one outcome per batch: every
\* failed batch is reported as failed against its own index, every succeeded
\* batch is recorded as succeeded.
C5_OneOutcomePerBatch ==
  AllSettled =>
    /\ ReportedFailed = {i \in 1..Len(commits) : commits[i] = "failed"}
    /\ ReportedSucceeded = {i \in 1..Len(commits) : commits[i] = "ok"}

CompletionLogged == \E k \in 1..Len(consoleLog) : consoleLog[k] = "complete"

\* C6: every commit is issued before migrateData waits for any of them, and
\* the run is declared complete only when every commit has succeeded: never
\* while one is in flight or has failed.
C6_BarrierJoin ==
  /\ pc = "await"
       => /\ Len(commits) = Len(batchArray)
          /\ \A i \in 1..Len(commits) : commits[i] # "none"
  /\ (pc = "done" \/ CompletionLogged)
       => /\ pc = "done" /\ CompletionLogged
          /\ Len(commits) = Len(batchArray)
          /\ \A i \in 1..Len(commits) : commits[i] = "ok"

\* C6 witness: the run is declared complete with three batches committed
C6_CompleteAfterAll ==
  /\ pc = "done"
  /\ CompletionLogged
  /\ Len(commits) = 3

\* the get() of the collection has failed
EnumerationFailed == pc = "caught" /\ promiseAll.state = "none"

\* C7: if the enumeration fails, migrateData ends with the error given to the
\* catch handler, no commit is ever issued and no document is modified.
C7_Step ==
  /\ pc \in {"start", "get"} => store' = store
  /\ EnumerationFailed'
       => /\ consoleError' = <<[src |-> "get", batch |-> 0]>>
          /\ batchArray' = <<>>
          /\ commits' = <<>>
          /\ store' = store
  /\ EnumerationFailed => UNCHANGED vars

C7_EnumerationFailure == [][C7_Step]_vars

\* C7 witness: the enumeration of a non-empty collection has failed
C7_GetFailed ==
  /\ EnumerationFailed
  /\ store # <<>>
  /\ consoleError # <<>>

\* C8: for a document without an aliases list the update sets aliases_norm
\* (to the empty list) exactly when the document has no aliases_norm field;
\* when the field exists, whatever its value, the update leaves it out and
\* the stored value is unchanged after the run.
C8_AliasGuard ==
  \A i \in 1..Len(batchArray) : \A j \in 1..Len(batchArray[i]) :
    LET e == batchArray[i][j]
        data == snapshot[e.ref]
    IN data.aliases.t # "array" =>
         /\ (e.data.aliases_norm.t # "undefined")
              <=> (data.aliases_norm.t = "undefined")
         /\ e.data.aliases_norm.t # "undefined"
              => e.data.aliases_norm = Arr(<<>>)
         /\ (data.aliases_norm.t # "undefined"
              /\ i <= Len(commits) /\ commits[i] = "ok")
              => store[e.ref].aliases_norm = data.aliases_norm

\* C9: normalizeForSearch is idempotent.
C9_Idempotent == Len(nfOut) = 2 => nfOut[2] = nfOut[1]

Substrings(text, ns) ==
  UNION {{SubSeq(text, i + 1, i + ns[k]) : i \in 0..(Len(text) - ns[k])}
         : k \in 1..Len(ns)}

\* C10: createNgrams returns exactly the substrings text[i .. i+n) for each
\* requested n and each offset 0 <= i <= length(text) - n, without
\* duplicates; nothing for an empty or too short text.
C10_NgramsExact ==
  (ngPc = "done" /\ ngText.t = "string") =>
    /\ {ngOut[k] : k \in 1..Len(ngOut)} = Substrings(ngText.s, ngNs)
    /\ \A j, k \in 1..Len(ngOut) : ngOut[j] = ngOut[k] => j = k
    /\ (ngText.s = <<>> \/ \A k \in 1..Len(ngNs) : Len(ngText.s) < ngNs[k])
         => ngOut = <<>>
    /\ (ngText.s = <<97, 98, 99, 100>> /\ ngNs = DefaultNValues)
         => {ngOut[k] : k \in 1..Len(ngOut)}
              = {<<97, 98>>, <<98, 99>>, <<99, 100>>,
                 <<97, 98, 99>>, <<98, 99, 100>>}

\* C10 witness: createNgrams("abcd") has returned its five n-grams
C10_Abcd ==
  /\ ngPc = "done"
  /\ ngText = Str(<<97, 98, 99, 100>>)
  /\ ngNs = DefaultNValues
  /\ Len(ngOut) = 5


\* the base name the claim describes: the value at "en" when name is a
\* mapping that has the key, else the first entry's value when it is a
\* string, else the empty string
ClaimedBaseName(data) ==
  IF data.name.t = "object"
  THEN IF \E i \in 1..Len(data.name.a) : data.name.a[i].k = "en"
       THEN Prop(data.name, "en")
       ELSE IF data.name.a # <<>> /\ data.name.a[1].v.t = "string"
            THEN data.name.a[1].v
            ELSE Str(<<>>)
  ELSE Str(<<>>)

\* C11: the base name of a document is the value at "en" of a mapping name
\* when present, else the mapping's first value when that is a string, else
\* the empty string; so the name_norm of every update is the normalisation of
\* that base name.
C11_BaseName ==
  \A i \in 1..Len(batchArray) : \A j \in 1..Len(batchArray[i]) :
    batchArray[i][j].data.name_norm
      = Str(normalizeForSearch(ClaimedBaseName(snapshot[batchArray[i][j].ref])))

\* C14: the result of normalizeForSearch holds no code point of
\* U+0300-U+036F.
C14_NoMarks ==
  \A r \in 1..Len(nfOut) : \A k \in 1..Len(nfOut[r]) : ~IsMark(nfOut[r][k])


\* the get() of an empty collection has resolved
EmptyEnumerated == pc \notin {"start", "get"} /\ ~EnumerationFailed /\ store = <<>>

\* C12 as stated: an empty record stream still produces exactly one batch,
\* which is empty, and that batch is committed like any other.
C12_OneEmptyBatch ==
  EmptyEnumerated =>
    /\ batchArray = <<<<>>>>
    /\ pc \in {"forEach", "await", "done", "caught"}

\* C12 as amended: for an empty collection migrateData logs that nothing was
\* found and returns: no batch is created and no commit is issued.
C12_EmptyReturns ==
  EmptyEnumerated =>
    /\ pc = "returned"
    /\ batchArray = <<>>
    /\ commits = <<>>
    /\ promiseAll = NoPromise
    /\ consoleLog = <<"start", "notfound">>
    /\ consoleError = <<>>

\* C12 witness: migrateData has returned for an empty collection
C12_Returned == pc = "returned" /\ snapshot = <<>> /\ store = <<>>


\* the values a name holds: of its entries when a mapping, its elements when
\* a list, none otherwise
NameValues(name) ==
  IF name.t = "object" THEN [i \in 1..Len(name.a) |-> name.a[i].v]
  ELSE IF name.t = "array" THEN name.a ELSE <<>>

\* a document whose name holds no non-empty string
NoResolvableName(data) ==
  \A i \in 1..Len(NameValues(data.name)) :
    ~(NameValues(data.name)[i].t = "string" /\ NameValues(data.name)[i].s # <<>>)

\* the update of an entry has name_norm and name_norm_ngrams, the n-grams
\* being the 2- and 3-character windows of that name_norm, each once
WellFormedUpdate(e) ==
  /\ e.data.name_norm.t = "string"
  /\ e.data.name_norm_ngrams.t = "array"
  /\ \A k \in 1..Len(e.data.name_norm_ngrams.a) :
       e.data.name_norm_ngrams.a[k].t = "string"
  /\ {e.data.name_norm_ngrams.a[k].s : k \in 1..Len(e.data.name_norm_ngrams.a)}
       = Substrings(e.data.name_norm.s, DefaultNValues)
  /\ Cardinality(Substrings(e.data.name_norm.s, DefaultNValues))
       = Len(e.data.name_norm_ngrams.a)
  /\ NoResolvableName(snapshot[e.ref])
       => e.data.name_norm = Str(<<>>) /\ e.data.name_norm_ngrams = Arr(<<>>)

C15_Step ==
  /\ \A i \in 1..Len(batchArray) :
       Len(batchArray[i]) = BatchLimit
         => i <= Len(batchArray') /\ batchArray'[i] = batchArray[i]
  /\ commits # <<>> => batchArray' = batchArray
  /\ batchArray' # batchArray => commits' = <<>>

C15_SealedBatchesFrozen == [][C15_Step]_vars

\* C15 witness: commits are in flight, the first batch is full and a later
\* batch took the documents that followed
C15_FullThenNext ==
  /\ pc = "await"
  /\ Len(batchArray) >= 2
  /\ Len(batchArray[1]) = BatchLimit
  /\ Len(batchArray[2]) > 0

\* migrateData has gone past the forEach of a non-empty snapshot
PastForEach ==
  pc \in {"await", "done"} \/ (pc = "caught" /\ ~EnumerationFailed)

\* C16: when the enumeration gave at least one document, every batch built
\* has its commit issued, the empty last batch of a multiple of 500 included,
\* and no commit is issued a second time, whether it failed or not.
C16_Step ==
  /\ PastForEach'
       => /\ Len(commits') = Len(batchArray')
          /\ \A i \in 1..Len(commits') : commits'[i] # "none"
  /\ commits # <<>> => Len(commits') = Len(commits)
  /\ \A i \in 1..Len(commits) :
       /\ commits[i] \in {"ok", "failed"} => commits'[i] = commits[i]
       /\ commits[i] = "inflight" => commits'[i] \in {"inflight", "ok", "failed"}

C16_CommittedExactlyOnce == [][C16_Step]_vars

\* C16 witness: of 500 documents the full batch's commit has failed and the
\* empty last batch's commit has succeeded; the failure has been handled
C16_EmptyLastCommitted ==
  /\ pc = "caught"
  /\ Len(batchArray) = 2
  /\ batchArray[2] = <<>>
  /\ commits = <<"failed", "ok">>


\* the indices of the string elements of a list, in increasing order
StringIndices(items) ==
  SelectSeq([i \in 1..Len(items) |-> i], LAMBDA i : items[i].t = "string")

\* the list the claim describes: each string element normalised, in place
NormalizedStrings(items) ==
  Arr([k \in 1..Len(StringIndices(items)) |->
         Str(normalizeForSearch(items[StringIndices(items)[k]]))])

\* C17: when aliases is a list, aliases_norm is written as the list of its
\* string elements, each normalised, in the original order and multiplicity;
\* it is written even when empty and replaces what was stored before.
C17_AliasesNormalized ==
  \A i \in 1..Len(batchArray) : \A j \in 1..Len(batchArray[i]) :
    LET e == batchArray[i][j]
        data == snapshot[e.ref]
    IN data.aliases.t = "array" =>
         /\ e.data.aliases_norm = NormalizedStrings(data.aliases.a)
         /\ (i <= Len(commits) /\ commits[i] = "ok")
              => store[e.ref].aliases_norm = NormalizedStrings(data.aliases.a)

\* C17 witness: a list with a non-string element has been written as its two
\* normalised strings, and an empty list has replaced a stored aliases_norm
C17_ListsWritten ==
  /\ pc = "done"
  /\ Len(store) = 2
  /\ Len(snapshot[1].aliases.a) = 3
  /\ store[1].aliases_norm = Arr(<<Str(<<97>>), Str(<<12497>>)>>)
  /\ snapshot[2].aliases = Arr(<<>>)
  /\ snapshot[2].aliases_norm = Arr(<<Str(<<97>>)>>)
  /\ store[2].aliases_norm = Arr(<<>>)


\* C18: running the migration again on the result of a run whose commits all
\* succeeded changes nothing: every document keeps its name_norm,
\* name_norm_ngrams and aliases_norm (name and aliases are never written).
C18_Step == run >= 2 => store' = store

C18_RerunIdempotent == [][C18_Step]_vars

\* C18 witness: the second run has completed on a collection of two batches
C18_SecondRunDone ==
  /\ run = 2
  /\ pc = "done"
  /\ Len(store) > BatchLimit
  /\ \A i \in 1..Len(commits) : commits[i] = "ok"

====
